---- MODULE Spec2Model ----
(***************************************************************************)
(* Model of the Spyfall web client (frontend/src/App.js): the React state  *)
(* of App, the WebSocket objects created by handleConnect with their       *)
(* onopen / onmessage / onclose callbacks, and the user actions of the     *)
(* Entry, PlayerForm and Lobby views.  Every callback runs to completion   *)
(* (JavaScript's event loop), so each one is a single action.              *)
(***************************************************************************)
EXTENDS Integers, Sequences, FiniteSets, TLC

VARIABLES optionSelected, shouldCreate, name, room, players, playersRef,
          socket, msg, err, socks, applied, last

vars == <<optionSelected, shouldCreate, name, room, players, playersRef,
          socket, msg, err, socks, applied, last>>

(* ---------------------------- bounds ----------------------------------- *)

\* number of WebSocket objects one run creates
MaxTransports == 2
\* longest roster the server lets grow by Join events
MaxRoster == 2

(* ---------------------------- values ----------------------------------- *)

\* JavaScript null where an object is expected (msg, "assignment": null)
Null == [tag |-> "null"]
\* JavaScript null where a string is expected (err, "room": null)
NullStr == "null"
\* useState(null) for socket: the index of a WebSocket in socks, 0 for null
NoSocket == 0

Names == {"Alice", "Bob"}
\* what the user can type in the Name field
TypedNames == {"Alice"}
\* what the user can type in the Room field
TypedRooms == {"R1"}
\* room identifiers the server assigns
RoomIds == {"R2"}
ErrorCodes == {"NoSuchRoom", "UsernameTaken", "FailedToCreateRoom"}

Range(s) == {s[i] : i \in 1..Len(s)}
NoDup(s) == \A i, j \in 1..Len(s) : s[i] = s[j] => i = j

\* rosters a server sends in a handshake success: names are unique in a room
Rosters == {s \in UNION {[1..n -> Names] : n \in 1..Cardinality(Names)} : NoDup(s)}

\* the Started payloads
Payloads == {[first |-> "Bob", assignment |-> Null],
             [first |-> "Alice", assignment |-> [location |-> "Beach", role |-> "Lifeguard"]]}

OkMsgs == {[tag |-> "Ok", room_id |-> r, players |-> p] : r \in RoomIds, p \in Rosters}
ErrMsgs == {[tag |-> "Err", code |-> c] : c \in ErrorCodes}
JoinMsgs == {[tag |-> "Join", name |-> n] : n \in Names}
LeftMsgs == {[tag |-> "Left", name |-> n] : n \in Names}
StartedMsgs == {[tag |-> "Started", payload |-> p] : p \in Payloads}
NotEnoughPlayers == [tag |-> "NotEnoughPlayers"]
\* a frame of any other shape, for instance {"Ping": 1}
OtherMsg == [tag |-> "Other"]

(* ------------------------ the rendered view ---------------------------- *)

\* a WebSocket whose handshake response has not arrived
Pending(s) == s.st \in {"connecting", "open"} /\ s.hs \in {"none", "sent"}
\* a WebSocket that is not closed
Live(s) == s.st \in {"connecting", "open"}
LiveSet == {t \in 1..Len(socks) : Live(socks[t])}

\* App's render: Entry or PlayerForm (no session), Game, Lobby
Phase ==
  IF optionSelected /\ socket # NoSocket
  THEN IF msg # Null THEN "InGame" ELSE "InLobby"
  ELSE IF \E t \in 1..Len(socks) : Pending(socks[t]) THEN "Connecting" ELSE "Idle"

EntryShown == ~optionSelected
PlayerFormShown == optionSelected /\ socket = NoSocket
LobbyShown == optionSelected /\ socket # NoSocket /\ msg = Null

\* the event handled last: its kind, the WebSocket it fired on (0 when it is
\* a user action) and the frame it carried
Snap(op, t, arg) == [op |-> op, t |-> t, arg |-> arg]

Init ==
  /\ optionSelected = FALSE
  /\ shouldCreate = FALSE
  /\ name = ""
  /\ room = ""
  /\ players = <<>>
  /\ playersRef = <<>>
  /\ socket = NoSocket
  /\ msg = Null
  /\ err = NullStr
  /\ socks = <<>>
  /\ applied = {}
  /\ last = [op |-> "init", t |-> 0, arg |-> Null]

(* --------------------------- user actions ------------------------------ *)

\* Entry: the Join Room and Create Room buttons
ChooseOption(create) ==
  /\ EntryShown
  /\ optionSelected' = TRUE
  /\ shouldCreate' = create
  /\ last' = Snap("user", 0, Null)
  /\ UNCHANGED <<name, room, players, playersRef, socket, msg, err, socks, applied>>

\* PlayerForm: the Name input
SetName(n) ==
  /\ PlayerFormShown
  /\ n # name
  /\ name' = n
  /\ last' = Snap("user", 0, Null)
  /\ UNCHANGED <<optionSelected, shouldCreate, room, players, playersRef, socket, msg, err,
                 socks, applied>>

\* PlayerForm: the Room input, shown in the join form only
SetRoom(r) ==
  /\ PlayerFormShown
  /\ ~shouldCreate
  /\ r # room
  /\ room' = r
  /\ last' = Snap("user", 0, Null)
  /\ UNCHANGED <<optionSelected, shouldCreate, name, players, playersRef, socket, msg, err,
                 socks, applied>>

\* PlayerForm: the Back button
Back ==
  /\ PlayerFormShown
  /\ optionSelected' = FALSE
  /\ last' = Snap("user", 0, Null)
  /\ UNCHANGED <<shouldCreate, name, room, players, playersRef, socket, msg, err, socks,
                 applied>>

\* no frame sent yet
NoFrame == [frame |-> "none"]

\* new WebSocket(SERVER_URL) with the three callbacks of handleConnect; the
\* callbacks close over the name and room passed to handleConnect
NewSocket(n, r) ==
  [st |-> "connecting", onmessage |-> "handshake", onclose |-> FALSE,
   name |-> n, room |-> r, hs |-> "none", out |-> NoFrame]

\* a closed WebSocket delivers no further event: its callbacks and closure are garbage
ClosedSocket ==
  [st |-> "closed", onmessage |-> "handshake", onclose |-> FALSE,
   name |-> "", room |-> "", hs |-> "none", out |-> NoFrame]

handleConnect(n, r) ==
  socks' = Append(socks, NewSocket(n, r))

\* PlayerForm: the Create and Join buttons
Connect ==
  /\ PlayerFormShown
  /\ Len(socks) < MaxTransports
  /\ IF shouldCreate THEN name # "" ELSE name # "" /\ room # ""
  /\ handleConnect(name, room)
  /\ last' = Snap("user", 0, Null)
  /\ UNCHANGED <<optionSelected, shouldCreate, name, room, players, playersRef, socket, msg,
                 err, applied>>

\* socket.onopen: the handshake request; "room" is null when room is empty
ReqRoom(r) == IF r = "" THEN NullStr ELSE r

HandshakeFrame(n, r) == [frame |-> "handshake", name |-> n, room |-> ReqRoom(r)]

SocketOpen(t) ==
  /\ socks[t].st = "connecting"
  /\ socks' = [socks EXCEPT ![t].st = "open",
                            ![t].out = HandshakeFrame(socks[t].name, socks[t].room),
                            ![t].hs = "sent"]
  /\ last' = Snap("open", t, Null)
  /\ UNCHANGED <<optionSelected, shouldCreate, name, room, players, playersRef, socket, msg,
                 err, applied>>

\* Lobby: the Start Game and Leave Room buttons.  out is the request the
\* server has yet to answer: once "Leave" is sent its answer is to close the
\* connection, whatever is sent after it
LobbySend(f) ==
  /\ LobbyShown
  /\ socks' = [socks EXCEPT ![socket].out =
                  IF @ = [frame |-> "Leave"] THEN @ ELSE [frame |-> f]]
  /\ last' = Snap("user", 0, Null)
  /\ UNCHANGED <<optionSelected, shouldCreate, name, room, players, playersRef, socket, msg,
                 err, applied>>

(* ------------------------ WebSocket callbacks -------------------------- *)

\* msg.Err of the handshake handler: undefined unless the frame is {Err: code}
ErrOf(m) == IF m.tag = "Err" THEN m.code ELSE NullStr

\* variant: the success branch registers onclose but leaves the handshake
\* handler installed as socket.onmessage
HandshakeHandlerNoSwap(t, m) ==
  IF m.tag = "Ok"
  THEN /\ err' = NullStr
       /\ room' = m.room_id
       /\ playersRef' = m.players
       /\ players' = m.players
       /\ socks' = [socks EXCEPT ![t].onclose = TRUE, ![t].hs = "ok"]
       /\ socket' = t
       /\ applied' = Range(m.players)
       /\ UNCHANGED <<optionSelected, shouldCreate, name, msg>>
  ELSE /\ socket' = NoSocket
       /\ err' = ErrOf(m)
       /\ socks' = [socks EXCEPT ![t].hs = "err"]
       /\ UNCHANGED <<optionSelected, shouldCreate, name, room, players, playersRef, msg,
                      applied>>

\* the first socket.onmessage of handleConnect
HandshakeHandler(t, m) ==
  IF m.tag = "Ok"
  THEN /\ err' = NullStr
       /\ room' = m.room_id
       /\ playersRef' = m.players
       /\ players' = m.players
       /\ socks' = [socks EXCEPT ![t].onmessage = "broker", ![t].onclose = TRUE,
                                 ![t].hs = "ok"]
       /\ socket' = t
       /\ applied' = Range(m.players)
       /\ UNCHANGED <<optionSelected, shouldCreate, name, msg>>
  ELSE /\ socket' = NoSocket
       /\ err' = ErrOf(m)
       /\ socks' = [socks EXCEPT ![t].hs = "err"]
       /\ UNCHANGED <<optionSelected, shouldCreate, name, room, players, playersRef, msg,
                      applied>>

\* variant: the new player is put in front of the others
JoinPlayersFront(cur, n) == <<n>> \o cur

\* variant: the spread reads the players array the callback closed over when
\* handleConnect was called (the empty array of the first render)
JoinPlayersStale(cur, n) == Append(<<>>, n)

\* [...playersRef.current, newPlayer]
JoinPlayers(cur, n) == Append(cur, n)

\* variant: the filter stops at the first occurrence of the exited player
LeftPlayersFirst(cur, n) ==
  IF \E i \in 1..Len(cur) : cur[i] = n
  THEN LET k == CHOOSE i \in 1..Len(cur) : cur[i] = n /\ \A j \in 1..(i - 1) : cur[j] # n
       IN  SubSeq(cur, 1, k - 1) \o SubSeq(cur, k + 1, Len(cur))
  ELSE cur

\* playersRef.current.filter(p => p !== exittedPlayer)
LeftPlayers(cur, n) == SelectSeq(cur, LAMBDA p : p # n)

\* variant: only the first player is kept, the assignment is dropped
StartedPayloadFirst(m) == [first |-> m.payload.first, assignment |-> Null]

\* setMsg(msg.Started)
StartedPayload(m) == m.payload

\* variant: a roster event also resets the game view (setMsg(null))
handleBrokerMsgRosterResets(t, m) ==
  CASE m.tag = "Join" ->
         /\ playersRef' = JoinPlayers(playersRef, m.name)
         /\ players' = playersRef'
         /\ applied' = applied \cup {m.name}
         /\ msg' = Null
         /\ UNCHANGED <<optionSelected, shouldCreate, name, room, socket, err, socks>>
    [] m.tag = "Left" ->
         /\ playersRef' = LeftPlayers(playersRef, m.name)
         /\ players' = playersRef'
         /\ applied' = applied \ {m.name}
         /\ msg' = Null
         /\ UNCHANGED <<optionSelected, shouldCreate, name, room, socket, err, socks>>
    [] m.tag = "Started" ->
         /\ msg' = StartedPayload(m)
         /\ socks' = [socks EXCEPT ![t].hs = "started"]
         /\ UNCHANGED <<optionSelected, shouldCreate, name, room, players, playersRef, socket,
                        err, applied>>
    [] m.tag = "NotEnoughPlayers" ->
         /\ err' = "NotEnoughPlayers"
         /\ UNCHANGED <<optionSelected, shouldCreate, name, room, players, playersRef, socket,
                        msg, socks, applied>>
    [] OTHER ->
         UNCHANGED <<optionSelected, shouldCreate, name, room, players, playersRef, socket,
                     msg, err, socks, applied>>

\* variant: the rejected start is treated as a disconnection (setSocket(null))
handleBrokerMsgRejectDisconnects(t, m) ==
  CASE m.tag = "Join" ->
         /\ playersRef' = JoinPlayers(playersRef, m.name)
         /\ players' = playersRef'
         /\ applied' = applied \cup {m.name}
         /\ UNCHANGED <<optionSelected, shouldCreate, name, room, socket, msg, err, socks>>
    [] m.tag = "Left" ->
         /\ playersRef' = LeftPlayers(playersRef, m.name)
         /\ players' = playersRef'
         /\ applied' = applied \ {m.name}
         /\ UNCHANGED <<optionSelected, shouldCreate, name, room, socket, msg, err, socks>>
    [] m.tag = "Started" ->
         /\ msg' = StartedPayload(m)
         /\ socks' = [socks EXCEPT ![t].hs = "started"]
         /\ UNCHANGED <<optionSelected, shouldCreate, name, room, players, playersRef, socket,
                        err, applied>>
    [] m.tag = "NotEnoughPlayers" ->
         /\ err' = "NotEnoughPlayers"
         /\ socket' = NoSocket
         /\ UNCHANGED <<optionSelected, shouldCreate, name, room, players, playersRef, msg,
                        socks, applied>>
    [] OTHER ->
         UNCHANGED <<optionSelected, shouldCreate, name, room, players, playersRef, socket,
                     msg, err, socks, applied>>

\* variant: the else branch reports the frame as the handshake handler does
\* (setErr(msg.Err))
handleBrokerMsgOtherSetsErr(t, m) ==
  CASE m.tag = "Join" ->
         /\ playersRef' = JoinPlayers(playersRef, m.name)
         /\ players' = playersRef'
         /\ applied' = applied \cup {m.name}
         /\ UNCHANGED <<optionSelected, shouldCreate, name, room, socket, msg, err, socks>>
    [] m.tag = "Left" ->
         /\ playersRef' = LeftPlayers(playersRef, m.name)
         /\ players' = playersRef'
         /\ applied' = applied \ {m.name}
         /\ UNCHANGED <<optionSelected, shouldCreate, name, room, socket, msg, err, socks>>
    [] m.tag = "Started" ->
         /\ msg' = StartedPayload(m)
         /\ socks' = [socks EXCEPT ![t].hs = "started"]
         /\ UNCHANGED <<optionSelected, shouldCreate, name, room, players, playersRef, socket,
                        err, applied>>
    [] m.tag = "NotEnoughPlayers" ->
         /\ err' = "NotEnoughPlayers"
         /\ UNCHANGED <<optionSelected, shouldCreate, name, room, players, playersRef, socket,
                        msg, socks, applied>>
    [] OTHER ->
         /\ err' = ErrOf(m)
         /\ UNCHANGED <<optionSelected, shouldCreate, name, room, players, playersRef, socket,
                        msg, socks, applied>>

\* the socket.onmessage installed by a successful handshake
handleBrokerMsg(t, m) ==
  CASE m.tag = "Join" ->
         /\ playersRef' = JoinPlayers(playersRef, m.name)
         /\ players' = playersRef'
         /\ applied' = applied \cup {m.name}
         /\ UNCHANGED <<optionSelected, shouldCreate, name, room, socket, msg, err, socks>>
    [] m.tag = "Left" ->
         /\ playersRef' = LeftPlayers(playersRef, m.name)
         /\ players' = playersRef'
         /\ applied' = applied \ {m.name}
         /\ UNCHANGED <<optionSelected, shouldCreate, name, room, socket, msg, err, socks>>
    [] m.tag = "Started" ->
         /\ msg' = StartedPayload(m)
         /\ socks' = [socks EXCEPT ![t].hs = "started"]
         /\ UNCHANGED <<optionSelected, shouldCreate, name, room, players, playersRef, socket,
                        err, applied>>
    [] m.tag = "NotEnoughPlayers" ->
         /\ err' = "NotEnoughPlayers"
         /\ UNCHANGED <<optionSelected, shouldCreate, name, room, players, playersRef, socket,
                        msg, socks, applied>>
    [] OTHER ->
         UNCHANGED <<optionSelected, shouldCreate, name, room, players, playersRef, socket,
                     msg, err, socks, applied>>

\* socket.onclose installed by a successful handshake
handleClose ==
  /\ socket' = NoSocket
  /\ room' = ""
  /\ optionSelected' = FALSE

(* ------------------- the server and the network ------------------------ *)

\* the handshake response: the first frame the server sends on a connection
DeliverHandshake(t, m) ==
  /\ socks[t].st = "open"
  /\ socks[t].onmessage = "handshake"
  /\ socks[t].hs = "sent"
  /\ m.tag = "Ok" => socks[t].name \in Range(m.players)
  /\ HandshakeHandler(t, m)
  /\ last' = Snap("handshake", t, m)

\* what the server sends on a connection that joined a room
BrokerFrames(t) ==
  {f \in JoinMsgs : Len(playersRef) < MaxRoster}
    \cup LeftMsgs
    \cup {f \in StartedMsgs : socks[t].hs = "ok"}
    \cup {f \in {NotEnoughPlayers} : socks[t].hs = "ok" /\ socks[t].out = [frame |-> "Start"]}
    \cup {OtherMsg}

DeliverBroker(t, m) ==
  /\ socks[t].st = "open"
  /\ socks[t].onmessage = "broker"
  /\ m \in BrokerFrames(t)
  /\ handleBrokerMsg(t, m)
  /\ last' = Snap("broker", t, m)

\* the connection ends: the close event runs onclose when one is installed
Close(t) ==
  /\ Live(socks[t])
  /\ socks' = [socks EXCEPT ![t] = ClosedSocket]
  /\ IF socks[t].onclose
     THEN handleClose
     ELSE UNCHANGED <<socket, room, optionSelected>>
  /\ last' = Snap("close", t, Null)
  /\ UNCHANGED <<shouldCreate, name, players, playersRef, msg, err, applied>>

Next ==
  \/ \E c \in BOOLEAN : ChooseOption(c)
  \/ \E n \in TypedNames \cup {""} : SetName(n)
  \/ \E r \in TypedRooms \cup {""} : SetRoom(r)
  \/ Back
  \/ Connect
  \/ \E f \in {"Start", "Leave"} : LobbySend(f)
  \/ \E t \in 1..Len(socks) : SocketOpen(t)
  \/ \E t \in 1..Len(socks) : \E m \in OkMsgs \cup ErrMsgs : DeliverHandshake(t, m)
  \/ \E t \in 1..Len(socks) :
       \E m \in JoinMsgs \cup LeftMsgs \cup StartedMsgs \cup {NotEnoughPlayers, OtherMsg} :
         DeliverBroker(t, m)
  \/ \E t \in 1..Len(socks) : Close(t)

Spec == Init /\ [][Next]_vars

\* the server answers a "Leave" by closing the connection
ServerClosesAfterLeave ==
  \E t \in 1..Len(socks) : socks[t].out = [frame |-> "Leave"] /\ Close(t)

\* the browser fires the open event of a connecting WebSocket
OpenEvent == \E t \in 1..Len(socks) : SocketOpen(t)

\* Spec with the events the network owes delivered: a leave request is
\* answered by the close, a connecting WebSocket opens
FairSpec ==
  /\ Spec
  /\ WF_vars(ServerClosesAfterLeave)
  /\ WF_vars(OpenEvent)

(* ------------------------------ claims --------------------------------- *)

\* the step just taken handled the broker frame m
BrokerStep(m) == last'.op = "broker" /\ last'.arg = m

\* s without every occurrence of n, the rest in order
RECURSIVE Without(_, _)
Without(s, n) ==
  IF s = <<>> THEN <<>>
  ELSE IF Head(s) = n THEN Without(Tail(s), n)
       ELSE <<Head(s)>> \o Without(Tail(s), n)

\* C1: the roster holds no name more than once, also after a Join for a name
\* that is already in it
C1_RosterNoDuplicates == NoDup(players) /\ NoDup(playersRef)

\* C2: gameStart (msg) is non-null exactly when the phase is InGame
C2_GameStartIffInGame == (msg # Null) <=> (Phase = "InGame")

\* C3: roomId (room) is non-empty exactly when the phase is InLobby or InGame
C3_RoomIdIffInRoom == (room # "") <=> (Phase \in {"InLobby", "InGame"})

\* C4: at most one transport is live at any time
C4_AtMostOneTransportLive == Cardinality(LiveSet) <= 1

\* C5: right after a handshake success {Ok: {room_id, players}} is handled,
\* lastError is none, roomId = room_id, roster = players and phase = InLobby
C5_HandshakeOkEntersLobby ==
  (last.op = "handshake" /\ last.arg.tag = "Ok") =>
    /\ err = NullStr
    /\ room = last.arg.room_id
    /\ players = last.arg.players
    /\ playersRef = last.arg.players
    /\ Phase = "InLobby"

\* C6: right after a handshake failure {Err: code} is handled, the transport
\* that carried it is no longer live, lastError = code and phase = Idle
C6_HandshakeErrDiscardsTransport ==
  (last.op = "handshake" /\ last.arg.tag = "Err") =>
    /\ ~Live(socks[last.t])
    /\ err = last.arg.code
    /\ Phase = "Idle"

\* C7 as stated: in InLobby, Join(n) for a name n not in the roster r gives
\* n followed by r
C7_JoinInsertsAtFront ==
  [][\A n \in Names :
       (BrokerStep([tag |-> "Join", name |-> n]) /\ Phase = "InLobby"
          /\ n \notin Range(playersRef))
       => (playersRef' = <<n>> \o playersRef /\ players' = playersRef')]_vars

\* C7 amended: in InLobby, Join(n) for a name n not in the roster r gives
\* r in its previous order followed by n
C7_JoinAppendsAtEnd ==
  [][\A n \in Names :
       (BrokerStep([tag |-> "Join", name |-> n]) /\ Phase = "InLobby"
          /\ n \notin Range(playersRef))
       => (playersRef' = playersRef \o <<n>> /\ players' = playersRef')]_vars

\* C7 witness: Join("Bob") was handled in the lobby on the roster ["Alice"]
C7_JoinWitness ==
  /\ last.op = "broker" /\ last.arg = [tag |-> "Join", name |-> "Bob"]
  /\ Phase = "InLobby"
  /\ playersRef = <<"Alice", "Bob">>

C9_LeftRemovesEveryOccurrence ==
  [][\A n \in Names :
       BrokerStep([tag |-> "Left", name |-> n])
       => /\ playersRef' = Without(playersRef, n)
          /\ n \notin Range(playersRef')
          /\ players' = playersRef'
          /\ (n \notin Range(playersRef) => playersRef' = playersRef)
          /\ Without(playersRef', n) = playersRef']_vars

\* C9 witness: a Left("Alice") has just been handled in the lobby and "Bob"
\* is what remains
C9_LeftWitness ==
  /\ last.op = "broker" /\ last.arg = [tag |-> "Left", name |-> "Alice"]
  /\ playersRef = <<"Bob">>
  /\ Phase = "InLobby"

\* C10: in InLobby, Started(payload) sets gameStart to the payload and the
\* phase to InGame, and leaves roomId, the roster and the transports alone
C10_StartedEntersGame ==
  [][\A p \in Payloads :
       (BrokerStep([tag |-> "Started", payload |-> p]) /\ Phase = "InLobby")
       => /\ msg' = p
          /\ Phase' = "InGame"
          /\ room' = room
          /\ players' = players /\ playersRef' = playersRef
          /\ socket' = socket
          /\ LiveSet' = LiveSet]_vars

\* C10 witness: a Started whose assignment is null has just been handled and
\* the game view is shown
C10_StartedWitness ==
  /\ last.op = "broker" /\ last.arg.tag = "Started"
  /\ last.arg.payload.assignment = Null
  /\ msg = last.arg.payload
  /\ Phase = "InGame"

\* C11: once a Started has been handled (gameStart is set), a Join or Left
\* handled later leaves gameStart as it is and, when the game view is shown,
\* leaves the phase InGame
C11_StartedIsTerminal ==
  [][\A m \in JoinMsgs \cup LeftMsgs :
       (BrokerStep(m) /\ msg # Null)
       => /\ msg' = msg
          /\ (Phase = "InGame" => Phase' = "InGame")]_vars

\* C11 witness: a Join has just been handled on the session's connection
\* after its Started, and the game view is still shown with the payload
C11_AfterStartedWitness ==
  /\ last.op = "broker" /\ last.arg = [tag |-> "Join", name |-> "Bob"]
  /\ last.t = socket
  /\ socks[socket].hs = "started"
  /\ msg \in Payloads
  /\ Phase = "InGame"

\* C12: in InLobby the literal "NotEnoughPlayers" sets lastError to
\* NotEnoughPlayers and leaves phase, roster, roomId, gameStart and the
\* transports as they are
C12_NotEnoughPlayersOnlySetsError ==
  [][(BrokerStep(NotEnoughPlayers) /\ Phase = "InLobby")
     => /\ err' = "NotEnoughPlayers"
        /\ Phase' = Phase
        /\ players' = players /\ playersRef' = playersRef
        /\ room' = room
        /\ msg' = msg
        /\ socket' = socket
        /\ socks' = socks]_vars

\* C12 witness: the rejection of a start request has just been handled in
\* the lobby
C12_RejectedWitness ==
  /\ last.op = "broker" /\ last.arg = NotEnoughPlayers
  /\ last.t = socket
  /\ err = "NotEnoughPlayers"
  /\ Phase = "InLobby"

\* the step just taken was the close event of WebSocket t
CloseStep(t) == last'.op = "close" /\ last'.t = t

\* C13: when the transport of an established session closes in InLobby or
\* InGame, the transport is discarded, roomId is emptied and the phase is
\* Idle; a close before a successful handshake runs no close handler
C13_CloseResetsSession ==
  [][\A t \in 1..Len(socks) :
       CloseStep(t) =>
         /\ (socks[t].onclose /\ t = socket /\ Phase \in {"InLobby", "InGame"})
              => /\ ~Live(socks'[t])
                 /\ socket' = NoSocket
                 /\ room' = ""
                 /\ Phase' = "Idle"
         /\ socks[t].hs \in {"none", "sent", "err"}
              => UNCHANGED <<socket, room, optionSelected>>]_vars

\* C14: a transport close clears lastError: right after the close handler
\* has run, lastError is none
C14_CloseClearsError ==
  [][\A t \in 1..Len(socks) :
       (CloseStep(t) /\ socks[t].onclose) => err' = NullStr]_vars

\* C15: the handshake request a connect() will send when its transport
\* opens carries room = null for a create attempt and the room the user
\* asked for in a join attempt
C15_RequestRoomByAttempt ==
  [][Connect =>
       LET s == socks'[Len(socks')]
       IN  HandshakeFrame(s.name, s.room).room = IF shouldCreate THEN NullStr ELSE room]_vars

\* C16: displayName (name) does not change once a connection attempt has
\* started: while a transport of the session is connecting, awaiting its
\* handshake response or joined to a room, name is the name its handshake
\* request carries
C16_NameFixedOnceConnecting ==
  \A t \in 1..Len(socks) :
    (Live(socks[t]) /\ socks[t].hs # "err") => name = socks[t].name

\* on every open WebSocket the installed onmessage is the handshake handler
\* until the handshake response has been consumed and the roster
\* synchronizer (with the close handler) from then on
HandlerFollowsHandshake ==
  \A t \in 1..Len(socks) :
    socks[t].st = "open" =>
      /\ socks[t].hs \in {"sent", "err"}
           => socks[t].onmessage = "handshake" /\ ~socks[t].onclose
      /\ socks[t].hs \in {"ok", "started"}
           => socks[t].onmessage = "broker" /\ socks[t].onclose

\* C17: on each transport the first inbound message is processed by the
\* handshake handler only and, after a success, every later message by the
\* roster synchronizer only; the synchronizer is installed by the step that
\* consumes the handshake response, not before
C17_OneHandlerPerMessage ==
  /\ []HandlerFollowsHandshake
  /\ [][\A t \in 1..Len(socks) :
          /\ (last'.op = "handshake" /\ last'.t = t)
               => /\ socks[t].onmessage = "handshake"
                  /\ socks'[t].onmessage
                       = IF last'.arg.tag = "Ok" THEN "broker" ELSE "handshake"
                  /\ UNCHANGED msg
          /\ (last'.op = "broker" /\ last'.t = t)
               => /\ socks[t].onmessage = "broker"
                  /\ socks'[t].onmessage = "broker"
                  /\ UNCHANGED <<socket, room>>]_vars

\* C17 witness: after a successful handshake a later message has just been
\* processed by the roster synchronizer
C17_SynchronizerWitness ==
  /\ last.op = "broker" /\ last.arg.tag = "Join"
  /\ socks[last.t].st = "open"
  /\ socks[last.t].onmessage = "broker"
  /\ socks[last.t].hs = "ok"

\* a "Leave" has been sent on a WebSocket that is still open
LeavePending == \E t \in LiveSet : socks[t].out = [frame |-> "Leave"]

\* C18: leave() in InLobby sends the literal "Leave" and changes no session
\* state; with the server closing the connection in answer and events
\* delivered fairly, the client eventually is in phase Idle with roomId empty
C18_LeaveEventuallyIdle ==
  /\ [][(LobbySend("Leave") /\ Phase = "InLobby")
        => /\ socks'[socket].out = [frame |-> "Leave"]
           /\ UNCHANGED <<optionSelected, shouldCreate, name, room, players, playersRef,
                          socket, msg, err>>]_vars
  /\ (LeavePending ~> (Phase = "Idle" /\ room = ""))

\* C19: a broker message of any other shape handled in InLobby or InGame
\* leaves phase, roomId, roster, lastError, gameStart and the transports as
\* they are
C19_OtherShapeChangesNothing ==
  [][(BrokerStep(OtherMsg) /\ Phase \in {"InLobby", "InGame"})
     => /\ Phase' = Phase
        /\ room' = room
        /\ players' = players /\ playersRef' = playersRef
        /\ err' = err
        /\ msg' = msg
        /\ socket' = socket
        /\ socks' = socks]_vars

\* C19 witness: a frame of another shape has just been handled in the lobby
\* while lastError was set
C19_OtherShapeWitness ==
  /\ last.op = "broker" /\ last.arg = OtherMsg
  /\ Phase = "InLobby"
  /\ err = "NotEnoughPlayers"
  /\ playersRef # <<>>

\* C20: whenever the session holds no transport (socket is null), no
\* WebSocket whose handshake succeeded is still open with the roster
\* synchronizer and the close handler installed
C20_NoOrphanJoinedTransport ==
  socket = NoSocket =>
    \A t \in 1..Len(socks) :
      ~(Live(socks[t]) /\ socks[t].onmessage = "broker" /\ socks[t].onclose)
====
